---- MODULE Spec2Model ----
(***************************************************************************)
(* Model of the options-analysis backend: the FyersService token manager   *)
(* (app/services/fyers.py), symbol resolution (app/utils/symbol_utils.py), *)
(* the option-chain pipeline and the margin/premium loop                   *)
(* (app/utils/calculations.py) and the router (app/routers/option_chain.py)*)
(*                                                                         *)
(* Spec      : pipeline invocations, each on its own worker thread,        *)
(*             sharing the process-wide settings object and the .env file. *)
(* SpecPrice : fetch-chain filtering and the per-row margin/premium loop   *)
(*             on concrete rows (one invocation, all inputs enumerated).   *)
(***************************************************************************)
EXTENDS Integers, Sequences, FiniteSets, TLC

VARIABLES
    now,        \* time.time(), in ticks of 1/Res second
    settings,   \* app.core.config.settings (process-wide, shared)
    envFile,    \* the .env file: a sequence of lines
    issued,     \* number of access tokens the upstream has issued so far
    persisted,  \* history: access tokens whose write to .env has completed
    inv,        \* per pipeline invocation (one request, one worker thread): its state
    px,         \* SpecPrice: one run of get_option_chain + pricing on concrete rows
    rs,         \* SpecResolve: one run of get_symbol_name on a concrete catalog
    paired      \* history: the <<token, expiry>> pairs save_tokens has stored

vars == <<now, settings, envFile, issued, persisted, inv, px, rs, paired>>

(***************************************************************************)
(* Bounds                                                                  *)
(***************************************************************************)
Res == 2          \* clock ticks per second
MaxTime == 2      \* last clock tick
MaxRows == 3      \* rows of an upstream option-chain response (SpecPrice)
MaxCat == 2       \* records of a catalog snapshot (SpecResolve)

\* the pipeline invocations of a run; they may overlap or follow one another
Procs == {"r1", "r2"}

(***************************************************************************)
(* Program constants                                                       *)
(***************************************************************************)
SafetyMargin == 60
DefaultExpiresIn == 86400
NoToken == 0          \* the empty string ""
InitToken == 1        \* the access token found in .env at start-up
NoExpiresIn == -1     \* response body without "expires_in"

\* access token number n issued by the upstream
IssuedToken(n) == InitToken + n

(***************************************************************************)
(* Time                                                                    *)
(***************************************************************************)
\* fyers.py:108  self.token_expires_at = time.time() + expires_in - 60
ExpiresAtNoMargin(t, expires_in) == t + Res * expires_in
ExpiresAt(t, expires_in) == t + Res * (expires_in - SafetyMargin)

\* fyers.py:107  response_data.get("expires_in", 86400)
ExpiresInOf(e) == IF e = NoExpiresIn THEN DefaultExpiresIn ELSE e

\* fyers.py:130  str(int(self.token_expires_at)): whole seconds, fraction dropped
StrInt(t) == Res * (t \div Res)

\* fyers.py:65  not self.access_token or current_time >= float(self.token_expires_at)
StaleAlways(tok, exp, t) == TRUE
NeedsRefresh(tok, exp, t) == tok = NoToken \/ t >= exp

(***************************************************************************)
(* The .env file and the dict update_env_file builds from it               *)
(***************************************************************************)
K_TOKEN == "FYERS_ACCESS_TOKEN"
K_EXPIRY == "FYERS_TOKEN_EXPIRES_AT"
K_REFRESH == "FYERS_REFRESH_TOKEN"
K_PIN == "FYERS_PIN"
K_CLIENT == "FYERS_CLIENT_ID"
K_HASH == "FYERS_CLIENT_ID_HASH"
K_HOST == "api_host"

SecretKeys == {K_REFRESH, K_PIN, K_CLIENT, K_HASH}
KeptKeys == SecretKeys \cup {K_HOST}

\* a line "key=value", or a line without "=" (a comment)
KV(k, v) == [eq |-> TRUE, key |-> k, val |-> v]
Comment == [eq |-> FALSE, key |-> "#", val |-> 0]

\* a Python dict: <<key, value>> pairs in insertion order, keys unique
HasKey(d, k) == \E i \in 1..Len(d) : d[i][1] = k
Lookup(d, k) == d[CHOOSE i \in 1..Len(d) : d[i][1] = k][2]
DictSet(d, k, v) ==
    IF HasKey(d, k)
    THEN [i \in 1..Len(d) |-> IF d[i][1] = k THEN <<k, v>> ELSE d[i]]
    ELSE Append(d, <<k, v>>)

\* fyers.py:148-151  every non-blank line with "=" sets env_vars[key] = value
RECURSIVE ParseEnv(_)
ParseEnv(file) ==
    IF file = <<>> THEN <<>>
    ELSE LET d == ParseEnv(SubSeq(file, 1, Len(file) - 1))
             l == file[Len(file)]
         IN IF l.eq THEN DictSet(d, l.key, l.val) ELSE d

\* fyers.py:153  env_vars.update(new_vars)
RECURSIVE DictUpdate(_, _)
DictUpdate(d, new) ==
    IF new = <<>> THEN d
    ELSE DictUpdate(DictSet(d, new[1][1], new[1][2]), Tail(new))

\* fyers.py:156-157  one "key=value" line per item
RenderEnv(d) == [i \in 1..Len(d) |-> KV(d[i][1], d[i][2])]

\* fyers.py:132-135  the two keys save_tokens hands to update_env_file
NewVars(tok, exp) == <<<<K_TOKEN, tok>>, <<K_EXPIRY, StrInt(exp)>>>>

(***************************************************************************)
(* Request parameters.  A date string is the sequence of its digit groups  *)
(* between "-" signs: "2025-01-30" is <<<<2,0,2,5>>, <<0,1>>, <<3,0>>>>.   *)
(***************************************************************************)
RECURSIVE Num(_)
Num(ds) == IF ds = <<>> THEN 0 ELSE 10 * Num(SubSeq(ds, 1, Len(ds) - 1)) + ds[Len(ds)]

IsLeap(y) == (y % 4 = 0 /\ y % 100 # 0) \/ y % 400 = 0
DaysInMonth(y, m) ==
    IF m = 2 THEN (IF IsLeap(y) THEN 29 ELSE 28)
    ELSE IF m \in {4, 6, 9, 11} THEN 30 ELSE 31

\* datetime.strptime(s, '%Y-%m-%d'): %Y is four digits; %m and %d take one or
\* two digits (a leading zero is optional); the day must exist in the month
StrptimeOK(s) ==
    /\ Len(s) = 3
    /\ Len(s[1]) = 4
    /\ Len(s[2]) \in {1, 2} /\ Num(s[2]) \in 1..12
    /\ Len(s[3]) \in {1, 2} /\ Num(s[3]) >= 1
    /\ Num(s[3]) <= DaysInMonth(Num(s[1]), Num(s[2]))

\* the strict form YYYY-MM-DD: four, two and two digits, naming a calendar day
IsYMD(s) == StrptimeOK(s) /\ Len(s[2]) = 2 /\ Len(s[3]) = 2

\* str.upper() on the side strings in use
Upper(side) == IF side = "ce" THEN "CE" ELSE IF side = "pe" THEN "PE" ELSE side

D_2025_01_30 == <<<<2, 0, 2, 5>>, <<0, 1>>, <<3, 0>>>>
D_2025_1_30 == <<<<2, 0, 2, 5>>, <<1>>, <<3, 0>>>>
D_30_01_2025 == <<<<3, 0>>, <<0, 1>>, <<2, 0, 2, 5>>>>

Req(n, e, s) == [name |-> n, expiry |-> e, side |-> s]
NoReq == Req("", <<>>, "")

\* the requests a worker may receive
Requests ==
    { Req("HDFCBANK", D_2025_01_30, "CE"),
      Req("", D_2025_01_30, "CE"),
      Req("HDFCBANK", D_30_01_2025, "CE"),
      Req("HDFCBANK", D_2025_1_30, "CE"),
      Req("HDFCBANK", D_2025_01_30, "ce"),
      Req("HDFCBANK", D_2025_01_30, "XX") }

\* the input the specification calls malformed
Malformed(r) == r.name = "" \/ ~IsYMD(r.expiry) \/ r.side \notin {"CE", "PE"}

(***************************************************************************)
(* Exceptions: the kind raised, as it is re-raised layer by layer          *)
(***************************************************************************)
NoError == "none"

\* routers/option_chain.py:27-39  validate_parameters
validate_parameters(r) ==
    IF r.name = "" THEN "InvalidParameterError"
    ELSE IF ~StrptimeOK(r.expiry) THEN "InvalidParameterError"
    ELSE IF Upper(r.side) \notin {"CE", "PE"} THEN "InvalidParameterError"
    ELSE NoError

\* utils/calculations.py:26-35  validate_input_parameters
calc_validate_input_parameters(r) ==
    IF r.name = "" THEN "ValueError"
    ELSE IF r.expiry = <<>> THEN "ValueError"
    ELSE IF r.side \notin {"CE", "PE"} THEN "ValueError"
    ELSE NoError

\* utils/symbol_utils.py:24-46  validate_input_parameters
sym_validate_input_parameters(r) ==
    IF r.name = "" THEN "ValueError"
    ELSE IF ~StrptimeOK(r.expiry) THEN "ValueError"
    ELSE IF r.side \notin {"CE", "PE"} THEN "ValueError"
    ELSE NoError

FyersErrors == {"FyersServiceError", "AuthenticationError", "TokenRefreshError",
                "OptionChainError"}

\* fyers.py:119-124  refresh_access_token re-raises everything as TokenRefreshError
RefreshRaises(e) == "TokenRefreshError"
\* fyers.py:76-78  authenticate re-raises everything as AuthenticationError
AuthenticateRaises(e) == "AuthenticationError"
\* fyers.py:55-57  __init__ re-raises everything as FyersServiceError
InitRaises(e) == "FyersServiceError"
\* fyers.py:138-140, 161-163  save_tokens / update_env_file
SaveRaises(e) == "FyersServiceError"
\* fyers.py:211-216  get_option_chain
ChainRaises(e) == "OptionChainError"
\* calculations.py:85-87  get_highest_option_prices
PricesRaises(e) == "DataProcessingError"
\* calculations.py:229-234  calculate_margin_and_premium
MarginRaises(e) == "MarginCalculationError"

\* symbol_utils.py:159-182  get_symbol_name turns every failure into an HTTPException
SymbolRaises(e) ==
    IF e = "ValueError" THEN "HTTPException400"
    ELSE IF e = "DataFetchError" THEN "HTTPException503"
    ELSE IF e = "SymbolNotFoundError" THEN "HTTPException404"
    ELSE "HTTPException500"

\* calculations.py:131-154  get_option_chain_data
PipelineRaises(e) ==
    IF e \in FyersErrors THEN "HTTPException503"
    ELSE IF e = "ValueError" THEN "HTTPException400"
    ELSE IF e = "DataProcessingError" THEN "HTTPException422"
    ELSE "HTTPException500"

\* routers/option_chain.py:84-110  the status the client receives
RouterRaises(e) ==
    IF e = "InvalidParameterError" THEN 400
    ELSE IF e = "RouterDataFetchError" THEN 404
    ELSE IF e = "EmptyDataError" THEN 404
    ELSE 500

(***************************************************************************)
(* Symbol resolution (utils/symbol_utils.py)                               *)
(***************************************************************************)
\* the calendar day of a number of days since 1970-01-01 (proleptic Gregorian),
\* as pd.to_datetime(unit='s') computes it
CivilFromDays(days) ==
    LET z == days + 719468
        era == z \div 146097
        doe == z - era * 146097
        yoe == (doe - (doe \div 1460) + (doe \div 36524) - (doe \div 146096)) \div 365
        doy == doe - (365 * yoe + (yoe \div 4) - (yoe \div 100))
        mp == (5 * doy + 2) \div 153
        d == doy - ((153 * mp + 2) \div 5) + 1
        m == IF mp < 10 THEN mp + 3 ELSE mp - 9
        y == yoe + era * 400 + (IF m <= 2 THEN 1 ELSE 0)
    IN <<y, m, d>>

Digits2(n) == <<n \div 10, n % 10>>
Digits4(n) == <<n \div 1000, (n \div 100) % 10, (n \div 10) % 10, n % 10>>

\* (a variant of EpochToYMD that takes the day in the exchange's time zone, UTC+5:30)
EpochToLocalYMD(e) ==
    LET c == CivilFromDays((e + 19800) \div 86400)
    IN <<Digits4(c[1]), Digits2(c[2]), Digits2(c[3])>>

\* symbol_utils.py:99-100  epoch seconds -> '%Y-%m-%d' (UTC)
EpochToYMD(e) ==
    LET c == CivilFromDays(e \div 86400)
    IN <<Digits4(c[1]), Digits2(c[2]), Digits2(c[3])>>

\* a catalog record; minLotSize is a number (lotNum) or some other JSON value;
\* a number is minLotSize, or minLotSize + 1/2 when lotHalf
Rec(sym, ot, us, ed, isnum, lot) ==
    [sym |-> sym, optType |-> ot, underSym |-> us, expiryDate |-> ed,
     lotNum |-> isnum, minLotSize |-> lot, lotHalf |-> FALSE]

\* symbol_utils.py:153  lot_size <= 0
LotNotPositive(r) == IF r.lotHalf THEN r.minLotSize < 0 ELSE r.minLotSize <= 0

\* symbol_utils.py:157  int(lot_size): the fraction is dropped, towards zero
IntLot(r) == IF r.lotHalf /\ r.minLotSize < 0 THEN r.minLotSize + 1 ELSE r.minLotSize

\* symbol_utils.py:94-100  process_symbol_data
process_symbol_data(cat) ==
    LET kept == SelectSeq(cat, LAMBDA r : r.optType # "XX")
    IN [i \in 1..Len(kept) |-> [kept[i] EXCEPT !.expiryDate = EpochToYMD(@)]]

\* symbol_utils.py:137-157  filter, first match, lot-size check
Resolved(e, sym, lot) == [err |-> e, symbol |-> sym, lot |-> lot]
ResolveSymbol(cat, r) ==
    LET df == process_symbol_data(cat)
        hit == SelectSeq(df, LAMBDA x : x.underSym = r.name
                                        /\ x.expiryDate = r.expiry
                                        /\ x.optType = r.side)
    IN IF hit = <<>> THEN Resolved("SymbolNotFoundError", "", 0)
       ELSE IF ~hit[1].lotNum \/ LotNotPositive(hit[1])
            THEN Resolved("ValueError", "", 0)
       ELSE Resolved(NoError, hit[1].sym, IntLot(hit[1]))

\* catalog snapshots the upstream may serve (1738231200 = 2025-01-30 10:00 UTC)
CatHit == << Rec("NSE:HDFCBANK25JANFUT", "XX", "HDFCBANK", 1738231200, TRUE, 550),
             Rec("NSE:HDFCBANK25JAN1700CE", "CE", "HDFCBANK", 1738231200, TRUE, 550) >>
CatMiss == << Rec("NSE:SBIN25JAN800CE", "CE", "SBIN", 1738231200, TRUE, 750) >>
CatBadLot == << Rec("NSE:HDFCBANK25JAN1700CE", "CE", "HDFCBANK", 1738231200, TRUE, 0) >>
Catalogs == {CatHit, CatMiss, CatBadLot}

(***************************************************************************)
(* Option chain (services/fyers.py get_option_chain, utils/calculations.py)*)
(***************************************************************************)
Quote(a, b, ot, k) ==
    [ask |-> a, bid |-> b, option_type |-> ot, strike_price |-> k, symbol |-> k]

\* (a variant of FilterChain that skips the first upstream row before filtering)
FilterChainSkipFirst(rows) ==
    IF rows = <<>> THEN <<>> ELSE SelectSeq(Tail(rows), LAMBDA q : q.ask # 0)

\* fyers.py:204-206  rows with ask != 0, then iloc[1:]
FilterChain(rows) ==
    LET liquid == SelectSeq(rows, LAMBDA q : q.ask # 0)
    IN IF liquid = <<>> THEN <<>> ELSE Tail(liquid)

\* an upstream answer to fyers.optionchain: kind is "ok", "error" (s != "ok"),
\* "nodata" (no data.optionsChain) or "exception" (the client library raised)
ChainResp(kind, rows) == [kind |-> kind, rows |-> rows]

\* fyers.py:191-216  get_option_chain: [err, df]
get_option_chain(resp) ==
    IF resp.kind # "ok" THEN [err |-> "OptionChainError", df |-> <<>>]
    ELSE IF resp.rows = <<>> THEN [err |-> "OptionChainError", df |-> <<>>]
    ELSE [err |-> NoError, df |-> FilterChain(resp.rows)]

\* calculations.py:72-80  the quoted price of a row for the requested side
QuotedPrice(q, side) == IF side = "CE" THEN q.ask ELSE q.bid

Cand(q, side, name) ==
    [symbol |-> q.symbol, strike_price |-> q.strike_price, option_type |-> q.option_type,
     price |-> QuotedPrice(q, side), instrument_name |-> name]

\* calculations.py:56-87  get_highest_option_prices: [err, df]
get_highest_option_prices(df, name, side) ==
    LET f == SelectSeq(df, LAMBDA q : q.option_type = side)
    IN IF df = <<>> \/ f = <<>> THEN [err |-> "DataProcessingError", df |-> <<>>]
       ELSE [err |-> NoError, df |-> [i \in 1..Len(f) |-> Cand(f[i], side, name)]]

\* calculations.py:120-129  fetch + empty check + processing: [err, df]
FetchAndProcess(resp, name, side) ==
    LET c == get_option_chain(resp)
    IN IF c.err # NoError THEN c
       ELSE IF c.df = <<>> THEN [err |-> "DataProcessingError", df |-> <<>>]
       ELSE get_highest_option_prices(c.df, name, side)

(***************************************************************************)
(* Margin and premium (utils/calculations.py calculate_margin_and_premium) *)
(***************************************************************************)
\* an answer of the span_margin endpoint: kind is "transport" (no answer),
\* "http_error" (non-2xx), "no_total" (no data.total) or "total"
MarginResp(kind, total) == [kind |-> kind, total |-> total]
MarginResps == { MarginResp("transport", 0), MarginResp("http_error", 0),
                 MarginResp("no_total", 0), MarginResp("total", 0),
                 MarginResp("total", 7) }

\* the pricing call of a row succeeded: an answer carrying a total arrived
CallSucceeded(resp) == resp.kind = "total"

\* calculations.py:179-181  the row with margin 0.0 and premium 0.0
Unpriced(c) ==
    [symbol |-> c.symbol, strike_price |-> c.strike_price, option_type |-> c.option_type,
     price |-> c.price, instrument_name |-> c.instrument_name, margin |-> 0, premium |-> 0]

\* calculations.py:203-224  one iteration of the loop
PriceRow(row, lot, resp) ==
    IF resp.kind \in {"transport", "http_error"} THEN row
    ELSE IF resp.kind = "no_total" \/ resp.total = 0 THEN row
    ELSE [row EXCEPT !.margin = resp.total, !.premium = row.price * lot]

(***************************************************************************)
(* Spec: concurrent pipeline invocations                                   *)
(***************************************************************************)
\* core/config.py:5-14  the settings loaded from .env at start-up
Settings(tok, exp) ==
    [tok |-> tok, exp |-> exp, rtok |-> 11, pin |-> 12, cid |-> 13, hash |-> 14]

\* the .env file the settings were loaded from
EnvOf(s) ==
    << Comment, KV(K_CLIENT, s.cid), KV(K_HASH, s.hash), KV(K_TOKEN, s.tok),
       KV(K_REFRESH, s.rtok), KV(K_PIN, s.pin), KV(K_HOST, 15), KV(K_EXPIRY, s.exp) >>

\* fyers.py:43  all([client_id, client_id_hash, refresh_token, pin])
CredentialsPresent(s) == s.cid # 0 /\ s.hash # 0 /\ s.rtok # 0 /\ s.pin # 0

\* "expires_in" values of a refresh response, in seconds
ExpiresIns == {60, 61, NoExpiresIn}

\* the ways a refresh attempt fails before a token is stored (fyers.py:94-104)
RefreshFailures == {"transport", "http_error", "bad_json", "no_token"}

\* answers of the option-chain endpoint
ChainResps ==
    { ChainResp("exception", <<>>), ChainResp("error", <<>>), ChainResp("nodata", <<>>),
      ChainResp("ok", << Quote(5, 4, "CE", 1) >>),
      ChainResp("ok", << Quote(5, 4, "CE", 1), Quote(0, 0, "CE", 2),
                         Quote(6, 3, "CE", 3), Quote(7, 2, "PE", 4), Quote(8, 1, "CE", 5) >>) }

\* SpecPrice is not running
PxOff == [pc |-> "off"]
\* SpecResolve is not running
RsOff == [pc |-> "off"]

\* an invocation whose request has not arrived yet
IdleInv ==
    [ pc |-> "idle", req |-> NoReq, lot |-> 0,
      tok |-> NoToken, exp |-> 0,        \* self.access_token, self.token_expires_at
      fy |-> NoToken,                    \* the token inside self.fyers
      rtk |-> NoToken, ein |-> 0,        \* response_data: access_token, expires_in
      refAt |-> -1,                      \* time.time() at fyers.py:108 (-1: no refresh)
      envv |-> <<>>,                     \* env_vars of update_env_file
      todo |-> 0,                        \* rows the pricing loop has still to visit
      sent |-> NoToken, hdr |-> NoToken, \* token sent to the chain / margin endpoints
      nCat |-> 0, nRef |-> 0, nChain |-> 0, nMargin |-> 0,   \* outbound calls issued
      checked |-> "no",                  \* outcome of the validity check: "valid", "stale"
      refFailed |-> FALSE,               \* the refresh call failed
      svcErr |-> NoError,                \* what FyersService() raised to its caller
      status |-> 0 ]                     \* HTTP status returned to the client

Init ==
    /\ now = 0
    /\ settings \in {Settings(NoToken, 0), Settings(InitToken, 0), Settings(InitToken, Res),
                     [Settings(InitToken, Res) EXCEPT !.pin = 0]}
    /\ envFile = EnvOf(settings)
    /\ issued = 0
    /\ persisted = {settings.tok} \ {NoToken}
    /\ inv = [p \in Procs |-> IdleInv]
    /\ px = PxOff
    /\ rs = RsOff
    /\ paired = {<<settings.tok, settings.exp>>}

At(p, l) == inv[p].pc = l

\* the invocation ends: the locals go away, what was observed of it stays
Ended(r, st) ==
    [IdleInv EXCEPT !.pc = "done", !.req = r.req, !.status = st,
                    !.nCat = r.nCat, !.nRef = r.nRef, !.nChain = r.nChain,
                    !.nMargin = r.nMargin, !.checked = r.checked,
                    !.refFailed = r.refFailed, !.svcErr = r.svcErr,
                    !.sent = r.sent, !.hdr = r.hdr]

\* (a variant of Fails in which a failed resolution does not stop the pipeline)
FailsContinue(p, r, e) ==
    inv' = [inv EXCEPT ![p] = IF r.pc = "idle" THEN [r EXCEPT !.pc = "svc_init"]
                              ELSE Ended(r, RouterRaises(PipelineRaises(e)))]

\* an exception raised inside get_option_chain_data reaches the client
Fails(p, r, e) == inv' = [inv EXCEPT ![p] = Ended(r, RouterRaises(PipelineRaises(e)))]

\* an exception raised inside FyersService() reaches the client
ServiceFails(p, r, e) ==
    inv' = [inv EXCEPT ![p] =
              Ended([r EXCEPT !.svcErr = e], RouterRaises(PipelineRaises(e)))]

\* an answer of the catalog URL to pd.read_json: a payload, or none that parses
Payload(ok, cat) == [ok |-> ok, cat |-> cat]
Payloads == {Payload(FALSE, <<>>)} \cup {Payload(TRUE, c) : c \in Catalogs}

\* symbol_utils.py:48-74, 127-182  get_symbol_name: the catalog URL is requested
\* by requests.get (probe) and again by pd.read_json (payload):
\* [err, raw, symbol, lot, nCat], raw being the exception the handlers caught
SymbolFails(raw, n) ==
    [err |-> SymbolRaises(raw), raw |-> raw, symbol |-> "", lot |-> 0, nCat |-> n]
get_symbol_name(r, probeOk, payload) ==
    LET e == sym_validate_input_parameters(r)
        res == ResolveSymbol(payload.cat, r)
    IN IF e # NoError THEN SymbolFails(e, 0)
       ELSE IF ~probeOk THEN SymbolFails("DataFetchError", 1)
       ELSE IF ~payload.ok \/ payload.cat = <<>> THEN SymbolFails("DataFetchError", 2)
       ELSE IF res.err # NoError THEN SymbolFails(res.err, 2)
       ELSE [err |-> NoError, raw |-> NoError, symbol |-> res.symbol,
             lot |-> res.lot, nCat |-> 2]

\* routers/option_chain.py:49-69, calculations.py:108-116  the request arrives,
\* is validated, and its symbol is resolved
OptionChainRequest(p, r) ==
    /\ At(p, "idle")
    /\ LET me == [IdleInv EXCEPT !.req = r]
           e1 == validate_parameters(r)
           e2 == calc_validate_input_parameters(r)
       IN IF e1 # NoError
          THEN inv' = [inv EXCEPT ![p] = Ended(me, RouterRaises(e1))]
          ELSE IF e2 # NoError THEN Fails(p, me, e2)
          ELSE \E probeOk \in BOOLEAN : \E payload \in Payloads :
                 LET res == get_symbol_name(r, probeOk, payload)
                     got == [me EXCEPT !.nCat = res.nCat]
                 IN IF res.err # NoError THEN Fails(p, got, res.err)
                    ELSE inv' = [inv EXCEPT ![p] =
                                   [got EXCEPT !.pc = "svc_init", !.lot = res.lot]]
    /\ UNCHANGED <<now, settings, envFile, issued, persisted, px, rs, paired>>

\* fyers.py:36-40  __init__ copies the credentials and the access token
ServiceInitToken(p) ==
    /\ At(p, "svc_init")
    /\ inv' = [inv EXCEPT ![p] = [@ EXCEPT !.pc = "svc_init2", !.tok = settings.tok]]
    /\ UNCHANGED <<now, settings, envFile, issued, persisted, px, rs, paired>>

\* fyers.py:41-51  __init__ copies the expiry, checks the credentials, builds the client
ServiceInitExpiry(p) ==
    /\ At(p, "svc_init2")
    /\ LET me == [inv[p] EXCEPT !.exp = settings.exp]
       IN IF ~CredentialsPresent(settings)
          THEN ServiceFails(p, me, InitRaises("AuthenticationError"))
          ELSE inv' = [inv EXCEPT ![p] = [me EXCEPT !.pc = "auth", !.fy = me.tok]]
    /\ UNCHANGED <<now, settings, envFile, issued, persisted, px, rs, paired>>

\* fyers.py:59-74, 80-94  authenticate: reuse the token, or post the refresh request
Authenticate(p) ==
    /\ At(p, "auth")
    /\ LET me == inv[p]
       IN IF NeedsRefresh(me.tok, me.exp, now)
          THEN inv' = [inv EXCEPT ![p] = [me EXCEPT !.pc = "refresh_wait",
                                                    !.checked = "stale",
                                                    !.nRef = @ + 1]]
          ELSE inv' = [inv EXCEPT ![p] = [me EXCEPT !.pc = "chain",
                                                    !.checked = "valid",
                                                    !.fy = me.tok]]
    /\ UNCHANGED <<now, settings, envFile, issued, persisted, px, rs, paired>>

\* (a variant of RefreshFail in which authenticate is entered again after a failure)
RefreshFailRetry(p) ==
    /\ At(p, "refresh_wait")
    /\ inv' = [inv EXCEPT ![p] = [@ EXCEPT !.pc = "auth", !.refFailed = TRUE]]
    /\ UNCHANGED <<now, settings, envFile, issued, persisted, px, rs, paired>>

\* (a variant of RefreshFail in which the response's missing token is stored
\* before it is tested)
RefreshFailStores(p) ==
    /\ At(p, "refresh_wait")
    /\ \E kind \in RefreshFailures :
         ServiceFails(p, [inv[p] EXCEPT !.refFailed = TRUE],
                      InitRaises(AuthenticateRaises(RefreshRaises(kind))))
    /\ settings' = [settings EXCEPT !.tok = NoToken]
    /\ UNCHANGED <<now, envFile, issued, persisted, px, rs, paired>>

\* fyers.py:94-104, 119-124  the refresh attempt fails
RefreshFail(p) ==
    /\ At(p, "refresh_wait")
    /\ \E kind \in RefreshFailures :
         ServiceFails(p, [inv[p] EXCEPT !.refFailed = TRUE],
                      InitRaises(AuthenticateRaises(RefreshRaises(kind))))
    /\ UNCHANGED <<now, settings, envFile, issued, persisted, px, rs, paired>>

\* fyers.py:94-108  the refresh response carries a token
RefreshOk(p) ==
    /\ At(p, "refresh_wait")
    /\ \E e \in ExpiresIns :
         inv' = [inv EXCEPT ![p] =
                   [@ EXCEPT !.pc = "save_token", !.rtk = IssuedToken(issued + 1),
                             !.ein = e, !.refAt = now,
                             !.tok = IssuedToken(issued + 1),
                             !.exp = ExpiresAt(now, ExpiresInOf(e))]]
    /\ issued' = issued + 1
    /\ UNCHANGED <<now, settings, envFile, persisted, px, rs, paired>>

\* fyers.py:129  settings.FYERS_ACCESS_TOKEN = self.access_token
SaveToken(p) ==
    /\ At(p, "save_token")
    /\ settings' = [settings EXCEPT !.tok = inv[p].tok]
    /\ inv' = [inv EXCEPT ![p] = [@ EXCEPT !.pc = "save_expiry"]]
    /\ UNCHANGED <<now, envFile, issued, persisted, px, rs, paired>>

\* fyers.py:130  settings.FYERS_TOKEN_EXPIRES_AT = str(int(self.token_expires_at))
SaveExpiry(p) ==
    /\ At(p, "save_expiry")
    /\ settings' = [settings EXCEPT !.exp = StrInt(inv[p].exp)]
    /\ inv' = [inv EXCEPT ![p] = [@ EXCEPT !.pc = "env_read"]]
    /\ paired' = paired \cup {<<inv[p].tok, StrInt(inv[p].exp)>>}
    /\ UNCHANGED <<now, envFile, issued, persisted, px, rs>>

\* an exception inside update_env_file, re-raised by each caller up to the client
PersistFails(p) ==
    ServiceFails(p, inv[p],
                 InitRaises(AuthenticateRaises(RefreshRaises(SaveRaises(SaveRaises("OSError"))))))

\* fyers.py:145-153  update_env_file reads .env and merges the new values
EnvRead(p) ==
    /\ At(p, "env_read")
    /\ \/ PersistFails(p)
       \/ inv' = [inv EXCEPT ![p] =
                    [@ EXCEPT !.pc = "env_open",
                              !.envv = DictUpdate(ParseEnv(envFile),
                                                  NewVars(inv[p].tok, inv[p].exp))]]
    /\ UNCHANGED <<now, settings, envFile, issued, persisted, px, rs, paired>>

\* fyers.py:155  open('.env', 'w') empties the file
EnvOpen(p) ==
    /\ At(p, "env_open")
    /\ \/ PersistFails(p) /\ UNCHANGED envFile
       \/ /\ envFile' = <<>>
          /\ inv' = [inv EXCEPT ![p] = [@ EXCEPT !.pc = "env_write"]]
    /\ UNCHANGED <<now, settings, issued, persisted, px, rs, paired>>

\* fyers.py:156-157, 112-117  the lines are written; the client is rebuilt
EnvWrite(p) ==
    /\ At(p, "env_write")
    /\ \/ PersistFails(p) /\ UNCHANGED <<envFile, persisted>>
       \/ /\ envFile' = RenderEnv(inv[p].envv)
          /\ persisted' = persisted \cup {inv[p].tok}
          /\ inv' = [inv EXCEPT ![p] = [@ EXCEPT !.pc = "chain", !.fy = inv[p].tok,
                                                 !.envv = <<>>]]
    /\ UNCHANGED <<now, settings, issued, px, rs, paired>>

\* calculations.py:120-129  get_option_chain and get_highest_option_prices
ChainCall(p) ==
    /\ At(p, "chain")
    /\ LET me == [inv[p] EXCEPT !.nChain = @ + 1, !.sent = inv[p].fy]
       IN \E resp \in ChainResps :
            LET res == FetchAndProcess(resp, me.req.name, me.req.side)
            IN IF res.err # NoError THEN Fails(p, me, res.err)
               ELSE inv' = [inv EXCEPT ![p] = [me EXCEPT !.pc = "price",
                                                         !.todo = Len(res.df)]]
    /\ UNCHANGED <<now, settings, envFile, issued, persisted, px, rs, paired>>

\* option_chain.py:70-82, calculations.py:173-227  calculate_margin_and_premium:
\* the Authorization header is built from the settings, then one margin call
\* per row; the priced rows are returned
PriceRows(p) ==
    /\ At(p, "price")
    /\ LET me == inv[p]
       IN IF me.todo = 0
          THEN inv' = [inv EXCEPT ![p] = Ended(me, RouterRaises("RouterDataFetchError"))]
          ELSE IF me.lot <= 0
          THEN inv' = [inv EXCEPT ![p] = Ended(me, RouterRaises(MarginRaises("ValueError")))]
          ELSE inv' = [inv EXCEPT ![p] =
                         Ended([me EXCEPT !.hdr = settings.tok, !.nMargin = me.todo], 200)]
    /\ UNCHANGED <<now, settings, envFile, issued, persisted, px, rs, paired>>

\* time passes
Tick ==
    /\ now < MaxTime
    /\ now' = now + 1
    /\ UNCHANGED <<settings, envFile, issued, persisted, inv, px, rs, paired>>

Next ==
    \/ \E p \in Procs : \E r \in Requests : OptionChainRequest(p, r)
    \/ \E p \in Procs : ServiceInitToken(p)
    \/ \E p \in Procs : ServiceInitExpiry(p)
    \/ \E p \in Procs : Authenticate(p)
    \/ \E p \in Procs : RefreshFail(p)
    \/ \E p \in Procs : RefreshOk(p)
    \/ \E p \in Procs : SaveToken(p)
    \/ \E p \in Procs : SaveExpiry(p)
    \/ \E p \in Procs : EnvRead(p)
    \/ \E p \in Procs : EnvOpen(p)
    \/ \E p \in Procs : EnvWrite(p)
    \/ \E p \in Procs : ChainCall(p)
    \/ \E p \in Procs : PriceRows(p)
    \/ Tick

Spec == Init /\ [][Next]_vars

\* Spec with the progress the code's scheduling gives: a worker thread keeps
\* executing its own statements, and fyers.optionchain is taken to answer.  An
\* answer to requests.post(url, headers=..., json=...) at fyers.py:94 and at
\* calculations.py:203 is not guaranteed: neither call passes a timeout.
SpecLive ==
    /\ Spec
    /\ \A p \in Procs :
          /\ WF_vars(ServiceInitToken(p)) /\ WF_vars(ServiceInitExpiry(p))
          /\ WF_vars(Authenticate(p))
          /\ WF_vars(SaveToken(p)) /\ WF_vars(SaveExpiry(p))
          /\ WF_vars(EnvRead(p)) /\ WF_vars(EnvOpen(p)) /\ WF_vars(EnvWrite(p))
          /\ WF_vars(ChainCall(p))

(***************************************************************************)
(* SpecPrice: one invocation from the option-chain answer to the priced    *)
(* rows, on concrete rows and concrete margin answers                      *)
(***************************************************************************)
\* the quotes of an upstream row: ask and bid may be 0, either side
QuoteKinds == {<<a, b, ot>> : a \in {0, 5}, b \in {0, 4}, ot \in {"CE", "PE"}}

\* the optionsChain lists of at most MaxRows rows; row k has strike and symbol k
ChainRows ==
    UNION { { [k \in 1..n |-> Quote(f[k][1], f[k][2], f[k][3], k)] :
              f \in [1..n -> QuoteKinds] } : n \in 0..MaxRows }

PriceChainResps ==
    { ChainResp("exception", <<>>), ChainResp("error", <<>>), ChainResp("nodata", <<>>) }
    \cup { ChainResp("ok", rows) : rows \in ChainRows }

\* lot sizes get_symbol_name may have resolved
LotSizes == {550}

PxStart(resp, side, lot) ==
    [ pc |-> "fetch", name |-> "HDFCBANK", side |-> side, lot |-> lot,
      resp |-> resp,        \* the option-chain answer
      df |-> <<>>,          \* the candidate rows handed to calculate_margin_and_premium
      out |-> <<>>,         \* result_df
      answers |-> <<>>,     \* the margin answers received, one per row visited
      err |-> NoError ]

InitPrice ==
    /\ now = 0
    /\ settings = Settings(InitToken, Res)
    /\ envFile = EnvOf(settings)
    /\ issued = 0
    /\ persisted = {InitToken}
    /\ inv = [p \in Procs |-> IdleInv]
    /\ px \in {PxStart(resp, side, lot) :
                 resp \in PriceChainResps, side \in {"CE", "PE"}, lot \in LotSizes}
    /\ rs = RsOff
    /\ paired = {<<settings.tok, settings.exp>>}

\* calculations.py:120-129  get_option_chain_data after symbol resolution
FetchChain ==
    /\ px.pc = "fetch"
    /\ LET res == FetchAndProcess(px.resp, px.name, px.side)
       IN IF res.err # NoError
          THEN px' = [px EXCEPT !.pc = "raised", !.err = PipelineRaises(res.err)]
          ELSE px' = [px EXCEPT !.pc = "price", !.df = res.df]
    /\ UNCHANGED <<now, settings, envFile, issued, persisted, inv, rs, paired>>

\* option_chain.py:70-71, calculations.py:173-181  the checks, then result_df with
\* margin and premium set to 0.0
PriceBegin ==
    /\ px.pc = "price"
    /\ IF px.df = <<>>
       THEN px' = [px EXCEPT !.pc = "raised", !.err = "RouterDataFetchError"]
       ELSE IF px.lot <= 0
       THEN px' = [px EXCEPT !.pc = "raised", !.err = MarginRaises("ValueError")]
       ELSE px' = [px EXCEPT !.pc = "loop",
                             !.out = [i \in 1..Len(px.df) |-> Unpriced(px.df[i])]]
    /\ UNCHANGED <<now, settings, envFile, issued, persisted, inv, rs, paired>>

\* calculations.py:189-224  the margin call of the next row and what it leaves
PriceNext ==
    /\ px.pc = "loop"
    /\ Len(px.answers) < Len(px.out)
    /\ \E resp \in MarginResps :
         LET i == Len(px.answers) + 1
         IN px' = [px EXCEPT !.out[i] = PriceRow(px.out[i], px.lot, resp),
                             !.answers = Append(px.answers, resp)]
    /\ UNCHANGED <<now, settings, envFile, issued, persisted, inv, rs, paired>>

\* calculations.py:226-227, option_chain.py:77-82  the loop is over
PriceReturn ==
    /\ px.pc = "loop"
    /\ Len(px.answers) = Len(px.out)
    /\ px' = [px EXCEPT !.pc = "returned"]
    /\ UNCHANGED <<now, settings, envFile, issued, persisted, inv, rs, paired>>

NextPrice == FetchChain \/ PriceBegin \/ PriceNext \/ PriceReturn

SpecPrice == InitPrice /\ [][NextPrice]_vars

(***************************************************************************)
(* SpecResolve: one call of get_symbol_name by the pipeline, on a concrete *)
(* catalog snapshot, and the way its failure reaches the client            *)
(***************************************************************************)
\* 2025-01-30 10:00:00, 2025-01-30 23:59:59 and 2025-02-27 10:00:00 UTC
E_JAN30 == 1738231200
E_JAN30_LATE == 1738281599
E_FEB27 == 1740650400
D_2025_02_27 == <<<<2, 0, 2, 5>>, <<0, 2>>, <<2, 7>>>>

\* the records a snapshot is made of; the key of a record is its position
RecKinds ==
    { Rec("", "CE", "HDFCBANK", E_JAN30, TRUE, 550),
      Rec("", "CE", "HDFCBANK", E_JAN30_LATE, TRUE, 25),
      Rec("", "XX", "HDFCBANK", E_JAN30, TRUE, 550),
      Rec("", "PE", "HDFCBANK", E_JAN30, TRUE, 550),
      Rec("", "CE", "SBIN", E_JAN30, TRUE, 750),
      Rec("", "CE", "HDFCBANK", E_FEB27, TRUE, 550),
      Rec("", "CE", "HDFCBANK", E_JAN30, TRUE, 0),
      Rec("", "CE", "HDFCBANK", E_JAN30, TRUE, -1),
      Rec("", "CE", "HDFCBANK", E_JAN30, FALSE, 0),
      [Rec("", "CE", "HDFCBANK", E_JAN30, TRUE, 0) EXCEPT !.lotHalf = TRUE] }

SymAt(k) == <<"NSE:SYM", k>>

\* the snapshots of at most MaxCat records
Snapshots ==
    UNION { { [k \in 1..n |-> [f[k] EXCEPT !.sym = SymAt(k)]] : f \in [1..n -> RecKinds] }
            : n \in 0..MaxCat }

\* the queries that reach get_symbol_name: those both validations before it accept
ResolveRequests ==
    { r \in Requests \cup { Req("HDFCBANK", D_2025_01_30, "PE"),
                             Req("SBIN", D_2025_01_30, "CE"),
                             Req("HDFCBANK", D_2025_02_27, "CE") } :
        /\ validate_parameters(r) = NoError
        /\ calc_validate_input_parameters(r) = NoError }

RsStart(cat, r) ==
    [ pc |-> "call", req |-> r, cat |-> cat,
      fetched |-> FALSE,       \* fetch_symbol_data returned the snapshot
      symbol |-> "", lot |-> 0,   \* what get_symbol_name returned
      raw |-> NoError,         \* the exception raised inside get_symbol_name
      err |-> NoError,         \* the exception as re-raised so far
      status |-> 0 ]           \* HTTP status returned to the client

InitResolve ==
    /\ now = 0
    /\ settings = Settings(InitToken, Res)
    /\ envFile = EnvOf(settings)
    /\ issued = 0
    /\ persisted = {InitToken}
    /\ inv = [p \in Procs |-> IdleInv]
    /\ px = PxOff
    /\ rs \in {RsStart(cat, r) : cat \in Snapshots, r \in ResolveRequests}
    /\ paired = {<<settings.tok, settings.exp>>}

\* calculations.py:115, symbol_utils.py:127-182  get_symbol_name returns or raises
ResolveOutcome(s, answered, res) ==
    [s EXCEPT !.pc = IF res.err # NoError THEN "raised" ELSE "resolved",
              !.fetched = (answered /\ res.nCat = 2 /\ s.cat # <<>>),
              !.raw = res.raw, !.err = res.err,
              !.symbol = res.symbol, !.lot = res.lot]
ResolveCall ==
    /\ rs.pc = "call"
    /\ \E probeOk \in BOOLEAN : \E ok \in BOOLEAN :
         rs' = ResolveOutcome(rs, probeOk /\ ok,
                              get_symbol_name(rs.req, probeOk, Payload(ok, rs.cat)))
    /\ UNCHANGED <<now, settings, envFile, issued, persisted, inv, px, paired>>

\* calculations.py:131-154, option_chain.py:84-110  the exception reaches the client
ResolvePropagate ==
    /\ rs.pc = "raised"
    /\ rs' = [rs EXCEPT !.pc = "answered", !.err = PipelineRaises(rs.err),
                        !.status = RouterRaises(PipelineRaises(rs.err))]
    /\ UNCHANGED <<now, settings, envFile, issued, persisted, inv, px, paired>>

NextResolve == ResolveCall \/ ResolvePropagate

SpecResolve == InitResolve /\ [][NextResolve]_vars

(***************************************************************************)
(* Properties                                                              *)
(***************************************************************************)

\* C1 (token reuse).  When authenticate finds an access token present and the
\* current time strictly before the expiry it holds, it posts no refresh
\* request, keeps token and expiry as they are (in the service object, the
\* settings and .env) and goes on to the option-chain call with that token;
\* an invocation whose check found the token valid never issues a refresh call.
C1_TokenReuse ==
    /\ [](\A p \in Procs : inv[p].checked = "valid" => inv[p].nRef = 0)
    /\ [][\A p \in Procs :
            (At(p, "auth") /\ inv'[p] # inv[p]
               /\ inv[p].tok # NoToken /\ now < inv[p].exp)
            => /\ inv'[p].pc = "chain"
               /\ inv'[p].nRef = 0
               /\ inv'[p].tok = inv[p].tok /\ inv'[p].exp = inv[p].exp
               /\ inv'[p].fy = inv[p].tok
               /\ settings' = settings /\ envFile' = envFile /\ issued' = issued]_vars

\* C1 witness: one invocation refreshed and finished; the other one, started
\* inside the validity window, reused the refreshed token without a refresh call.
C1_Witness ==
    \E p, q \in Procs :
        /\ p # q
        /\ inv[p].nRef = 1 /\ inv[p].status = 200
        /\ At(q, "done") /\ inv[q].checked = "valid" /\ inv[q].nRef = 0
        /\ inv[q].sent = inv[p].sent /\ inv[q].sent = IssuedToken(1)

\* C2 (single-flight refresh).  At no time are two refresh requests in flight:
\* a second invocation that finds the token expired waits for the refresh
\* already under way instead of posting its own.
C2_SingleFlight == Cardinality({p \in Procs : At(p, "refresh_wait")}) <= 1

\* C3 (persist before handoff).  Every access token an invocation treats as
\* the valid cached token, sends to the option-chain endpoint or puts into the
\* margin Authorization header is one whose write to .env has completed.
C3_PersistBeforeHandoff ==
    \A p \in Procs :
        /\ inv[p].sent \in persisted \cup {NoToken}
        /\ inv[p].hdr \in persisted \cup {NoToken}
        /\ (inv[p].checked = "valid" /\ ~At(p, "done")) => inv[p].tok \in persisted

\* C4 (refresh failure kind).  When the refresh attempt of an invocation has
\* failed, the error FyersService() raised to get_option_chain_data is an
\* AuthenticationError.
C4_RefreshFailureKind ==
    \A p \in Procs : inv[p].refFailed => inv[p].svcErr = "AuthenticationError"

\* C5 (refresh failure is terminal).  An invocation whose refresh call failed
\* issued exactly that one refresh call, issues no option-chain call and no
\* margin call, and has ended with an error status.
C5_RefreshFailureTerminal ==
    \A p \in Procs :
        inv[p].refFailed =>
            /\ inv[p].nRef = 1
            /\ inv[p].nChain = 0 /\ inv[p].nMargin = 0
            /\ At(p, "done") /\ inv[p].status >= 400

\* C5 witness: an invocation has ended after its refresh call failed.
C5_Witness == \E p \in Procs : inv[p].refFailed /\ At(p, "done") /\ inv[p].status = 500

\* C6 (refresh frame condition).  Whenever no rewrite of .env is under way, the
\* persisted store holds refresh token, pin, client id, client id hash and
\* every other key it held before, with the values the settings carry.
C6_RefreshFrame ==
    (\A p \in Procs : ~At(p, "env_write")) =>
        \A k \in KeptKeys :
            /\ HasKey(ParseEnv(envFile), k)
            /\ Lookup(ParseEnv(envFile), k) = Lookup(ParseEnv(EnvOf(settings)), k)

\* C7 (refresh success postcondition).  After a refresh performed at time
\* refAt whose response carried token rtk and lifetime expires_in (86400 when
\* the field is absent), the service holds rtk and the expiry
\* refAt + expires_in - 60; with expires_in > 60 the token passes the validity
\* check at refAt, against the exact expiry and against the whole-second one
\* written to the settings; from 60 seconds before the upstream expiry on, the
\* check finds it expired.
C7_RefreshPostcondition ==
    \A p \in Procs :
        inv[p].refAt >= 0 =>
            LET me == inv[p]
                life == IF me.ein = NoExpiresIn THEN DefaultExpiresIn ELSE me.ein
                upstream == me.refAt + Res * life
            IN /\ me.tok = me.rtk /\ me.rtk # NoToken
               /\ me.exp = upstream - Res * 60
               /\ life > 60 => /\ ~NeedsRefresh(me.tok, me.exp, me.refAt)
                               /\ ~NeedsRefresh(me.tok, StrInt(me.exp), me.refAt)
               /\ \A t \in 0..(MaxTime + 2 * Res) :
                     t >= upstream - Res * 60
                     => /\ NeedsRefresh(me.tok, me.exp, t)
                        /\ NeedsRefresh(me.tok, StrInt(me.exp), t)

\* C7 witness: a refresh with a 61 second lifetime, obtained between two whole
\* seconds, has been stored and persisted.
C7_Witness ==
    \E p \in Procs :
        /\ At(p, "chain") /\ inv[p].refAt >= 0 /\ inv[p].ein = 61
        /\ StrInt(inv[p].exp) # inv[p].exp
        /\ settings.tok = inv[p].tok /\ settings.exp = StrInt(inv[p].exp)

\* C8 (partial-failure isolation).  For a non-empty sequence of candidate rows
\* calculate_margin_and_premium does not raise; its result has one row per
\* candidate, in the same order; a row whose margin call failed (no answer,
\* non-2xx, no total) carries margin 0 and premium 0, every other row carries
\* the total returned for it and premium = quoted price * lot size.
C8_PartialFailureIsolation ==
    /\ (px.pc = "raised" /\ px.err = "MarginCalculationError") => px.df = <<>>
    /\ px.pc = "returned" =>
          /\ Len(px.out) = Len(px.df) /\ Len(px.df) > 0
          /\ \A i \in 1..Len(px.df) :
                /\ px.out[i].symbol = px.df[i].symbol
                /\ px.out[i].strike_price = px.df[i].strike_price
                /\ IF CallSucceeded(px.answers[i])
                   THEN /\ px.out[i].margin = px.answers[i].total
                        /\ px.out[i].premium = px.df[i].price * px.lot
                   ELSE px.out[i].margin = 0 /\ px.out[i].premium = 0

\* C9 (skipped rows are distinguishable).  In a returned result no row whose
\* margin call succeeded carries the (margin, premium) = (0, 0) left on a
\* skipped row.
C9_SkippedDistinguishable ==
    px.pc = "returned" =>
        \A i \in 1..Len(px.out) :
            CallSucceeded(px.answers[i])
            => <<px.out[i].margin, px.out[i].premium>> # <<0, 0>>

\* C10 (fail-fast validation).  An invocation whose input is malformed (empty
\* underlying, expiry not of the form YYYY-MM-DD, side other than CE / PE)
\* issues no outbound call: no catalog request, no refresh, no option-chain
\* call, no margin call.
C10_FailFast ==
    \A p \in Procs :
        (~At(p, "idle") /\ Malformed(inv[p].req))
        => /\ inv[p].nCat = 0 /\ inv[p].nRef = 0
           /\ inv[p].nChain = 0 /\ inv[p].nMargin = 0

\* C11 (malformed input error kind).  Every invocation whose input is malformed
\* (empty underlying, expiry not of the form YYYY-MM-DD, side not exactly "CE"
\* or "PE", lower case included) ends with InvalidParameterError, the client
\* error (HTTP 400) at the boundary, and with no other outcome.
C11_MalformedErrorKind ==
    \A p \in Procs :
        (At(p, "done") /\ Malformed(inv[p].req)) => inv[p].status = 400

\* the calendar day (UTC) of the expiry instants the snapshots use
ExpiryDay(e) ==
    CASE e = E_JAN30 -> D_2025_01_30
      [] e = E_JAN30_LATE -> D_2025_01_30
      [] e = E_FEB27 -> D_2025_02_27

\* the record is an option on the queried underlying, expiry day and side
Matches(rec, r) ==
    /\ rec.underSym = r.name
    /\ ExpiryDay(rec.expiryDate) = r.expiry
    /\ rec.optType = r.side

\* C12 (symbol-not-found propagation).  When the catalog was fetched and holds
\* no record matching (underlying, expiry, side), resolution raises
\* SymbolNotFoundError, that kind reaches the boundary unchanged, and the
\* client receives the not-found outcome (HTTP 404), not an internal error.
C12_SymbolNotFound ==
    ( /\ rs.pc \in {"resolved", "answered"}
      /\ rs.fetched
      /\ \A k \in 1..Len(rs.cat) : ~Matches(rs.cat[k], rs.req) )
    => /\ rs.pc = "answered"
       /\ rs.raw = "SymbolNotFoundError"
       /\ rs.err = "SymbolNotFoundError"
       /\ rs.status = 404

\* the positions of the upstream rows with a non-zero ask
Liquid(rows) == {k \in 1..Len(rows) : rows[k].ask # 0}

\* the positions that remain: non-zero ask, not the first such row, requested side
Kept(rows, side) ==
    {k \in Liquid(rows) : (\E j \in Liquid(rows) : j < k) /\ rows[k].option_type = side}

\* C13 (empty chain outcome).  When the option-chain call succeeds but no row
\* remains after the ask filter, the first-row skip and the side selection, the
\* pipeline ends with DataFetchError ("no data": the not-found outcome, HTTP
\* 404, at the boundary) and issues no margin call.
C13_EmptyChain ==
    ( /\ px.pc \notin {"off", "fetch"}
      /\ px.resp.kind = "ok" /\ px.resp.rows # <<>>
      /\ Kept(px.resp.rows, px.side) = {} )
    => /\ px.pc = "raised"
       /\ px.err = "RouterDataFetchError"
       /\ RouterRaises(px.err) = 404
       /\ px.answers = <<>>

\* C14 (resolution correctness).  Whenever get_symbol_name returns, the pair it
\* returns comes from a catalog record whose underlying, expiry day and side
\* equal the query: the symbol is that record's key and the lot size is the
\* whole part of that record's lot size; the record is not tagged "XX".  When
\* the catalog was fetched and holds matching records, all with a positive
\* whole lot size, get_symbol_name returns.
C14_ResolutionCorrect ==
    /\ rs.pc = "resolved" =>
          \E k \in 1..Len(rs.cat) :
              /\ Matches(rs.cat[k], rs.req)
              /\ rs.cat[k].optType # "XX"
              /\ rs.symbol = SymAt(k)
              /\ rs.cat[k].lotNum /\ rs.lot = rs.cat[k].minLotSize
    /\ ( /\ rs.pc # "call" /\ rs.fetched
         /\ \E k \in 1..Len(rs.cat) : Matches(rs.cat[k], rs.req)
         /\ \A k \in 1..Len(rs.cat) :
               Matches(rs.cat[k], rs.req)
               => rs.cat[k].lotNum /\ ~rs.cat[k].lotHalf /\ rs.cat[k].minLotSize > 0 )
       => rs.pc = "resolved"

\* C14 witness: the first record has the queried underlying and expiry but is
\* tagged "XX"; the second, expiring late on the queried day, is returned.
C14_Witness ==
    /\ rs.pc = "resolved" /\ Len(rs.cat) = 2
    /\ rs.cat[1].optType = "XX" /\ rs.cat[1].underSym = rs.req.name
    /\ rs.cat[2].expiryDate = E_JAN30_LATE
    /\ rs.symbol = SymAt(2) /\ rs.lot = 25

\* C15 (lot-size integrity).  When the record matched by the query has a lot
\* size that is zero, negative or not a number, get_symbol_name does not return
\* it and fails with DataIntegrityError, a kind distinct from the bad-input
\* kind (it does not surface as the client error, HTTP 400, of a malformed
\* request); every lot size get_symbol_name returns is a positive integer.
C15_LotSizeIntegrity ==
    /\ rs.pc = "resolved" => rs.lot > 0
    /\ ( /\ rs.pc # "call" /\ rs.fetched
         /\ \E k \in 1..Len(rs.cat) : Matches(rs.cat[k], rs.req)
         /\ \A k \in 1..Len(rs.cat) :
               Matches(rs.cat[k], rs.req)
               => ~rs.cat[k].lotNum \/ (rs.cat[k].minLotSize <= 0 /\ ~rs.cat[k].lotHalf) )
       => /\ rs.pc # "resolved"
          /\ rs.raw = "DataIntegrityError"
          /\ rs.err # "HTTPException400"

\* C16 (chain filtering).  The rows handed on by the pipeline are exactly the
\* upstream rows of the requested side with a non-zero ask, except the first
\* row with a non-zero ask (whatever its side), in their upstream order: every
\* row has a non-zero ask in its source quote, the first row left by the
\* zero-ask filter is excluded, and no other row of the side is dropped.
C16_ChainFiltering ==
    px.pc \in {"price", "loop", "returned"} =>
        LET rows == px.resp.rows
            res == IF px.pc = "price" THEN px.df ELSE px.out
        IN /\ Len(res) = Cardinality(Kept(rows, px.side))
           /\ \A i \in 1..Len(res) :
                 /\ res[i].symbol \in Kept(rows, px.side)
                 /\ rows[res[i].symbol].ask # 0
                 /\ res[i].strike_price = rows[res[i].symbol].strike_price
                 /\ \E j \in Liquid(rows) : j < res[i].symbol
           /\ \A i, j \in 1..Len(res) : i < j => res[i].symbol < res[j].symbol

\* C16 witness: the first upstream row has ask 0, the second (non-zero ask,
\* requested side) is the one skipped, the third is the only row returned.
C16_Witness ==
    /\ px.pc = "returned" /\ Len(px.resp.rows) = 3
    /\ px.resp.rows[1].ask = 0
    /\ px.resp.rows[2].ask # 0 /\ px.resp.rows[2].option_type = px.side
    /\ Len(px.out) = 1 /\ px.out[1].symbol = 3

\* C17 (price and premium).  In every returned row whose margin call succeeded,
\* the quoted price is the source quote's ask when the requested side is CE
\* and its bid when the side is PE, and premium = quoted price * lot size.
C17_PriceAndPremium ==
    px.pc = "returned" =>
        \A i \in 1..Len(px.out) :
            CallSucceeded(px.answers[i]) =>
                LET src == px.resp.rows[px.out[i].symbol]
                IN /\ px.out[i].price = (IF px.side = "CE" THEN src.ask ELSE src.bid)
                   /\ px.out[i].premium = px.out[i].price * px.lot

\* C18 (bounded outbound calls).  Every outbound call is bounded by a timeout,
\* so every pipeline invocation that has started eventually ends with a result
\* or an error, even when an upstream endpoint never answers.
C18_Terminates == \A p \in Procs : (~At(p, "idle")) ~> At(p, "done")

\* C19 (stage ordering).  Within one invocation the stages run in the order
\* resolve -> fetch chain -> price: the option-chain call is issued only after
\* both catalog reads and a successful resolution (a positive lot size is
\* held); the margin calls are issued only after the one option-chain call
\* succeeded with a non-empty filtered result, one per row; an invocation that
\* ended issues nothing more, and one that ended in a failure issued no call of
\* a later stage (none at all after a failed resolution, no margin call after
\* a failed refresh or chain call).
C19_StageOrdering ==
    /\ [](\A p \in Procs :
            /\ inv[p].nChain > 0 => (inv[p].nChain = 1 /\ inv[p].nCat = 2)
            /\ inv[p].nMargin > 0
               => (inv[p].nChain = 1 /\ At(p, "done") /\ inv[p].status = 200)
            /\ (At(p, "done") /\ inv[p].status # 200) => inv[p].nMargin = 0)
    /\ [][\A p \in Procs :
            /\ inv'[p].nChain > inv[p].nChain
               => (At(p, "chain") /\ inv[p].lot > 0 /\ inv[p].nCat = 2)
            /\ inv'[p].nMargin > inv[p].nMargin
               => (At(p, "price") /\ inv[p].nChain = 1 /\ inv[p].todo > 0
                   /\ inv'[p].nMargin = inv[p].todo)
            /\ (At(p, "idle") /\ inv'[p].pc = "done")
               => (inv'[p].nRef = 0 /\ inv'[p].nChain = 0 /\ inv'[p].nMargin = 0)
            /\ At(p, "done") => inv'[p] = inv[p]]_vars

\* C19 witness: one invocation went through all three stages and returned
\* priced rows; the other one's option-chain call failed and no margin call
\* followed.
C19_Witness ==
    \E p, q \in Procs :
        /\ At(p, "done") /\ inv[p].status = 200
        /\ inv[p].nCat = 2 /\ inv[p].nChain = 1 /\ inv[p].nMargin >= 2
        /\ At(q, "done") /\ inv[q].status = 500
        /\ inv[q].nChain = 1 /\ inv[q].nMargin = 0

\* C20 (fresh token per fetch).  Every option-chain call is issued after the
\* invocation's own validity check, with the token that check found valid or
\* the token its refresh obtained; the token a check found valid was compared
\* with the expiry stored for that very token, so that no call carries a token
\* whose stored expiry had been reached at the check.
C20_FreshToken ==
    [][\A p \in Procs :
         inv'[p].nChain > inv[p].nChain
         => /\ inv[p].checked \in {"valid", "stale"}
            /\ inv'[p].sent = inv[p].fy /\ inv'[p].sent # NoToken
            /\ inv[p].checked = "valid"
               => (inv'[p].sent = inv[p].tok
                   /\ <<inv[p].tok, inv[p].exp>> \in paired)
            /\ inv[p].checked = "stale"
               => (inv'[p].sent = inv[p].rtk /\ inv[p].nRef = 1)]_vars

\* C21 (catalog fetched once per resolution).  Every call of get_symbol_name
\* whose input passed validation has issued exactly one request to the
\* instrument-catalog URL.
C21_CatalogOnce ==
    \A p \in Procs :
        ( /\ ~At(p, "idle")
          /\ validate_parameters(inv[p].req) = NoError
          /\ calc_validate_input_parameters(inv[p].req) = NoError
          /\ sym_validate_input_parameters(inv[p].req) = NoError )
        => inv[p].nCat = 1

\* C22 (lookup-key uniqueness).  When the catalog was fetched and holds two or
\* more option records with the queried (underlying, expiry day, side),
\* get_symbol_name does not return any of them: the query fails with a
\* data-integrity error.
C22_KeyUnique ==
    ( /\ rs.pc \in {"resolved", "raised", "answered"}
      /\ rs.fetched
      /\ \E j, k \in 1..Len(rs.cat) :
            j # k /\ Matches(rs.cat[j], rs.req) /\ Matches(rs.cat[k], rs.req) )
    => /\ rs.pc # "resolved"
       /\ rs.raw = "DataIntegrityError"

\* C23 (failed refresh leaves credentials unchanged).  The step in which a
\* refresh attempt fails (transport error, non-2xx status, undecodable body,
\* body without access token) changes neither the settings nor .env nor the
\* set of persisted tokens.  Hence, as long as no refresh has succeeded, after
\* a failed attempt the stored pair is still the initial one, .env agrees with
\* it, the stored token still fails the validity check, and the next
\* invocation reaching the check posts a refresh request of its own.
C23_FailedRefreshFrame ==
    /\ [][\A p \in Procs :
            (At(p, "refresh_wait") /\ inv'[p].refFailed)
            => (settings' = settings /\ envFile' = envFile /\ persisted' = persisted)]_vars
    /\ []((issued = 0 /\ \E q \in Procs : inv[q].refFailed)
          => /\ NeedsRefresh(settings.tok, settings.exp, now)
             /\ paired = {<<settings.tok, settings.exp>>}
             /\ envFile = EnvOf(settings))
    /\ [][\A p \in Procs :
            (At(p, "auth") /\ issued = 0 /\ inv'[p].pc # "auth"
             /\ \E q \in Procs : inv[q].refFailed)
            => (inv'[p].pc = "refresh_wait" /\ inv'[p].nRef = 1)]_vars

\* C23 witness: after the refresh of one invocation failed with an expired
\* token stored, the other invocation found the same token expired and posted
\* its own refresh request.
C23_Witness ==
    \E p, q \in Procs :
        /\ inv[q].refFailed /\ At(q, "done")
        /\ issued = 0 /\ settings.tok = InitToken
        /\ At(p, "refresh_wait") /\ inv[p].nRef = 1 /\ inv[p].tok = InitToken

\* C24 (persisted secrets survive concurrent refreshes).  When every
\* invocation has ended and every refresh cycle that was started ran to its
\* end (no refresh call failed, no step of update_env_file raised), .env still
\* holds refresh token, pin, client id and client id hash with their original
\* values.
C24_SecretsSurvive ==
    (\A p \in Procs : At(p, "done") /\ ~inv[p].refFailed /\ inv[p].svcErr = NoError)
    => \A k \in SecretKeys :
          /\ HasKey(ParseEnv(envFile), k)
          /\ Lookup(ParseEnv(envFile), k) = Lookup(ParseEnv(EnvOf(settings)), k)

\* C25 (token/expiry pairing).  Whenever no refresh is in progress, the access
\* token and the expiry held in the settings were stored by the same refresh
\* (or are the initial pair), and likewise the access token and the expiry
\* .env holds, when it holds them.
C25_TokenExpiryPairing ==
    (\A p \in Procs : inv[p].pc \notin {"refresh_wait", "save_token", "save_expiry",
                                        "env_read", "env_open", "env_write"})
    => /\ <<settings.tok, settings.exp>> \in paired
       /\ (HasKey(ParseEnv(envFile), K_TOKEN) /\ HasKey(ParseEnv(envFile), K_EXPIRY))
          => <<Lookup(ParseEnv(envFile), K_TOKEN), Lookup(ParseEnv(envFile), K_EXPIRY)>>
               \in paired

====
